---- MODULE Spec2Model ----
(***************************************************************************)
(* Model of the JML annotation verification pipeline:                      *)
(*   JMLResearchEvaluator (JMLEvaluation.py)  - the evaluation grid and    *)
(*       its per-pair retry loop _evaluate_single_case,                    *)
(*   VerificationSystem (VervificationSystem.py) - the stand-alone copy    *)
(*       of the retry loop,                                                *)
(*   JMLGenerator, SpotBugsAnalyzer, KeYVerifier, OllamaClient - the       *)
(*       adapters around the external tools.                               *)
(* A run is either one run_evaluation (mode "grid") or one                 *)
(* VerificationSystem.run (mode "vs").  The answers of the external tools  *)
(* (LLM backend, openjml, javac, spotbugs, key) are nondeterministic.      *)
(***************************************************************************)
EXTENDS Integers, Sequences, FiniteSets, TLC

(* ------------------------------ bounds -------------------------------- *)
MaxRetries == 3      \* largest retry ceiling (max_retries) explored
MaxModels == 2       \* longest list of model configurations
MaxUnits == 2        \* most *.java files in the test case directory
MaxWork == 3         \* cap on models * units * max_retries of one run

(* ----------------------------- constants ------------------------------ *)
SampleCase == 0      \* id of the "Calculator" sample unit load_test_cases adds
NoTimeout == 0       \* a subprocess.run call without a timeout= argument
HttpTimeout == 60    \* timeout=60 of requests.post
KeYTimeout == 60     \* timeout=60 of the key subprocess

None == "None"       \* Python's None

VARIABLES
    mode,           \* "grid": run_evaluation, "vs": VerificationSystem.run
    max_retries,    \* self.max_retries
    models,         \* self.models: sequence of [name, client_type]
    dirCount,       \* number of *.java files in test_cases_dir
    cwdFile,        \* content of "<class_name>.java" in the working directory
    loaded,         \* local test_cases of run_evaluation (list of unit ids)
    test_cases,     \* self.results["test_cases"]
    metrics,        \* self.results["metrics"][name]: counters, then rates
    test_results,   \* self.results["metrics"][name]["test_results"][unit]
    ti, mi,         \* positions of the two nested for loops of run_evaluation
    pc,             \* control position
    result,         \* the result dict of _evaluate_single_case
    current_code,   \* local current_code of the retry loop
    feedback,       \* local feedback of the retry loop (the lines of the text)
    attempt,        \* the loop variable `attempt` (0-based; -1 before the loop)
    annotated_code, \* candidate of the attempt in progress
    spotbugs_errors,\* local spotbugs_errors of the attempt
    error,          \* str(e) of an exception that left _evaluate_single_case
    vs_return,      \* VerificationSystem.run: [returned, success, code]
    hist,           \* history: per attempt, what each stage did
    genCalls,       \* history: arguments of every generate_jml call of the loop
    raisedPairs,    \* history: grid positions <<ti, mi>> whose evaluation raised
    pairLog,        \* history: per grid position, what its own evaluation
                    \* returned or raised, and its attempts
    feedbackFrom    \* history: the attempt (1-based) whose handling assigned
                    \* the current feedback, 0 for the initial empty feedback

vars == <<mode, max_retries, models, dirCount, cwdFile, loaded, test_cases,
          metrics, test_results, ti, mi, pc, result, current_code, feedback, feedbackFrom,
          attempt, annotated_code, spotbugs_errors, error, vs_return, hist,
          genCalls, raisedPairs, pairLog>>

(* --------------------------- source texts ----------------------------- *)
\* A text is identified by where it comes from.  Unit files with an even
\* number hold no class declaration; the sample unit declares Calculator.
NoCode == [kind |-> "none", id |-> 0, hasClass |-> FALSE]
StaleCode == [kind |-> "stale", id |-> 0, hasClass |-> TRUE]
UnitSource(u) ==
    [kind |-> "unit", id |-> u, hasClass |-> (u = SampleCase \/ u % 2 = 1)]
Candidate(i) == [kind |-> "candidate", id |-> i, hasClass |-> TRUE]

\* JMLGenerator._get_code_class_name: the name, or None; it never raises.
GetCodeClassName(code) == IF code.hasClass THEN "Class" ELSE None

(* ------------------------- external tool calls ------------------------ *)
\* What a call yields when the tool behaves as b: a tool that never returns
\* blocks the caller for ever unless the call carries a timeout.
ToolAnswer(timeout, b) ==
    IF b # "never_returns" THEN b
    ELSE IF timeout = NoTimeout THEN "hang" ELSE "timeout"

\* OllamaClient.generate_jml: the request carries timeout=60; every
\* RequestException (refused, timeout, non-2xx) becomes ConnectionError.
LlmBehaviours == {"text", "no_class", "conn_error", "never_returns"}
GenerateJml(b) ==
    LET a == ToolAnswer(HttpTimeout, b)
    IN  IF a \in {"conn_error", "timeout"} THEN "ConnectionError" ELSE a

\* JMLGenerator._compile_with_openjml: subprocess.run without timeout.
OpenJmlBehaviours == {"ok", "errors", "oserror", "never_returns"}
CompileWithOpenJml(b) == ToolAnswer(NoTimeout, b)

\* SpotBugsAnalyzer.run: the list of errors, unless the call blocks.  javac
\* and spotbugs are run without timeout; every exception is caught and
\* reported as an error of the list.  (A missing class file after javac is
\* reported like a failed javac: a one-line list.)
SpotBugsBehaviours ==
    {"clean", "bugs", "javac_fail", "raise",
     "javac_never_returns", "spotbugs_never_returns"}
SpotBugsRun(file, b) ==
    LET a == IF b \in {"javac_never_returns", "spotbugs_never_returns"}
             THEN ToolAnswer(NoTimeout, "never_returns") ELSE b
    IN  IF file = NoCode
        THEN [hang |-> FALSE, errors |-> <<"File not found">>]
        ELSE IF a = "hang" THEN [hang |-> TRUE, errors |-> <<>>]
        ELSE IF a = "javac_fail"
        THEN [hang |-> FALSE, errors |-> <<"Compilation failed">>]
        ELSE IF a \in {"raise", "timeout"}
        THEN [hang |-> FALSE, errors |-> <<"Error running SpotBugs">>]
        ELSE IF a = "bugs"
        THEN [hang |-> FALSE, errors |-> <<"SpotBugs found issue">>]
        ELSE [hang |-> FALSE, errors |-> <<>>]

\* KeYVerifier.verify: never raises; the key call carries timeout=60.
\* Success is the presence of "Proof completed" in the output.
KeYBehaviours == {"proved", "unproved", "never_returns"}
KeYVerify(file, b) ==
    LET a == ToolAnswer(KeYTimeout, b)
    IN  IF file = NoCode
        THEN [success |-> FALSE, errors |-> <<"File not found">>]
        ELSE IF a = "timeout"
        THEN [success |-> FALSE, errors |-> <<"KeY verification timed out">>]
        ELSE IF a = "proved"
        THEN [success |-> TRUE, errors |-> <<>>]
        ELSE [success |-> FALSE, errors |-> <<"KeY error line">>]

(* ------------------- history of one loop (not program state) ---------- *)
\* For each attempt: "none" the stage did not run, "pass", "fail" the tool
\* reported defects, "error" the tool timed out, crashed or could not run;
\* the diagnostics SpotBugs and KeY returned in the attempt, and the length
\* of result["errors"] when the attempt began.
NoStages ==
    [gen |-> "none", compile |-> "none", spotbugs |-> "none", key |-> "none",
     spotbugs_errors |-> <<>>, key_errors |-> <<>>, errors_before |-> 0]

SpotBugsVerdict(errors, file, b) ==
    IF errors = <<>> THEN "pass"
    ELSE IF file # NoCode /\ b = "bugs" THEN "fail" ELSE "error"

KeYVerdict(key_result, file, b) ==
    IF key_result.success THEN "pass"
    ELSE IF file # NoCode /\ b = "unproved" THEN "fail"
    ELSE "error"

AllPassed(h) ==
    h.gen = "text" /\ h.compile = "pass" /\ h.spotbugs = "pass" /\ h.key = "pass"

(* ----------------------------- the inputs ----------------------------- *)
ClientTypes == {"ollama", "other"}

\* Model configurations: entry i is named by a number in 1..i, so that lists
\* with distinct names and lists that repeat a name both occur.
ModelLists ==
    UNION {{ml \in [1..n -> [name : 1..MaxModels, client_type : ClientTypes]] :
                \A i \in 1..n : ml[i].name <= i} : n \in 0..MaxModels}

ModelNames(ml) == {ml[i].name : i \in 1..Len(ml)}

\* load_test_cases: case_name is the stem of the file name ("Calculator" for
\* the sample unit).
CaseName(u) == IF u = SampleCase THEN "Calculator" ELSE ToString(u)

\* load_test_cases: the *.java files of the directory, or the sample unit
\* when there is none.
LoadTestCases(n) == IF n = 0 THEN <<SampleCase>> ELSE [i \in 1..n |-> i]

UnitsOf(n) == IF n = 0 THEN 1 ELSE n

(* --------------------------- the initial state ------------------------ *)
NoResult ==
    [success |-> FALSE, compile_success |-> FALSE, spotbugs_success |-> FALSE,
     key_success |-> FALSE, retries |-> 0, annotations |-> NoCode,
     errors |-> <<>>, class_name |-> None]

NoReturn == [returned |-> FALSE, success |-> FALSE, code |-> NoCode]

NoLocals ==
    /\ result = NoResult
    /\ current_code = NoCode
    /\ feedback = <<>>
    /\ feedbackFrom = 0
    /\ attempt = -1
    /\ annotated_code = NoCode
    /\ spotbugs_errors = <<>>
    /\ error = ""
    /\ hist = <<>>
    /\ genCalls = <<>>

\* The state after JMLResearchEvaluator.__init__ (mode "grid"), or at the
\* entry of VerificationSystem.run (mode "vs", run on the sample unit).
InitCommon ==
    /\ max_retries \in 1..MaxRetries
    /\ cwdFile \in {NoCode, StaleCode}
    /\ test_cases = <<>>
    /\ metrics = <<>>
    /\ test_results = [x \in {} |-> NoResult]
    /\ ti = 1 /\ mi = 1
    /\ raisedPairs = {}
    /\ pairLog = [x \in {} |-> NoResult]
    /\ vs_return = NoReturn
    /\ NoLocals

InitGrid ==
    /\ mode = "grid"
    /\ InitCommon
    /\ models \in ModelLists
    /\ dirCount \in 0..MaxUnits
    /\ Len(models) * UnitsOf(dirCount) * max_retries <= MaxWork
    /\ loaded = <<>>
    /\ pc = "init"

InitVs ==
    /\ mode = "vs"
    /\ models = <<>>
    /\ dirCount = 0
    /\ loaded = <<>>
    /\ pc = "vs_start"
    /\ InitCommon

Init == InitGrid \/ InitVs

(* ------------------ JMLResearchEvaluator: the metrics ----------------- *)
\* Counters and rates are exact fractions num/den (Python's true division).
Frac(n) == [num |-> n, den |-> 1]
FracAdd(f, n) == [num |-> f.num + n * f.den, den |-> f.den]
FracDiv(f, d) == [num |-> f.num, den |-> f.den * d]
FracMul(f, k) == [num |-> f.num * k, den |-> f.den]
FracEq(f, g) == f.num * g.den = g.num * f.den
FracLeq(f, g) == f.num * g.den <= g.num * f.den

\* run_evaluation, "Set up tracking metrics for each model".
ZeroMetrics ==
    [success_rate |-> Frac(0), avg_retries |-> Frac(0), compile_success |-> Frac(0),
     spotbugs_success |-> Frac(0), key_success |-> Frac(0)]

Flag(b) == IF b THEN 1 ELSE 0

\* _update_metrics: the counters of one model after one more result.
UpdateMetrics(m, r) ==
    [success_rate |-> FracAdd(m.success_rate, Flag(r.success)),
     compile_success |-> FracAdd(m.compile_success, Flag(r.compile_success)),
     spotbugs_success |-> FracAdd(m.spotbugs_success, Flag(r.spotbugs_success)),
     key_success |-> FracAdd(m.key_success, Flag(r.key_success)),
     avg_retries |-> FracAdd(m.avg_retries, r.retries)]

\* The variant without the early return.
NothingToFinalizeNever(test_count) == FALSE

\* _finalize_metrics: the early return when there is no test case.
NothingToFinalize(test_count) == test_count = 0

\* _finalize_metrics: counters to percentages and averages.
FinalizeModel(m, test_count) ==
    [success_rate |-> FracMul(FracDiv(m.success_rate, test_count), 100),
     compile_success |-> FracMul(FracDiv(m.compile_success, test_count), 100),
     spotbugs_success |-> FracMul(FracDiv(m.spotbugs_success, test_count), 100),
     key_success |-> FracMul(FracDiv(m.key_success, test_count), 100),
     avg_retries |-> FracDiv(m.avg_retries, test_count)]

\* dict assignment d[k] = v
Put(d, k, v) == [x \in DOMAIN d \cup {k} |-> IF x = k THEN v ELSE d[x]]

EmptyMap == [x \in {} |-> NoResult]

(* --------------- JMLResearchEvaluator: the evaluation grid ------------ *)
ResetLocals ==
    /\ result' = NoResult
    /\ current_code' = NoCode
    /\ feedbackFrom' = 0
    /\ feedback' = <<>>
    /\ attempt' = -1
    /\ annotated_code' = NoCode
    /\ spotbugs_errors' = <<>>
    /\ error' = ""
    /\ hist' = <<>>
    /\ genCalls' = <<>>

\* The two nested for loops: the position after pair (ti, mi).
Advance ==
    IF mi < Len(models) THEN ti' = ti /\ mi' = mi + 1 /\ pc' = "pair"
    ELSE IF ti < Len(loaded) THEN ti' = ti + 1 /\ mi' = 1 /\ pc' = "pair"
    ELSE ti' = ti /\ mi' = mi /\ pc' = "finalize"

\* run_evaluation: test_cases = self.load_test_cases()
LoadTestCasesStep ==
    /\ pc = "init"
    /\ loaded' = LoadTestCases(dirCount)
    /\ pc' = "setup"
    /\ UNCHANGED <<mode, max_retries, models, dirCount, cwdFile, test_cases,
                   metrics, test_results, ti, mi, result, current_code, feedback, feedbackFrom,
                   attempt, annotated_code, spotbugs_errors, error, vs_return,
                   hist, genCalls, raisedPairs, pairLog>>

\* run_evaluation: record the case names and set up the metrics of each model
SetupMetrics ==
    /\ pc = "setup"
    /\ test_cases' = loaded
    /\ metrics' = [n \in ModelNames(models) |-> ZeroMetrics]
    /\ test_results' = EmptyMap
    /\ ti' = 1 /\ mi' = 1
    /\ pc' = IF Len(loaded) > 0 /\ Len(models) > 0 THEN "pair" ELSE "finalize"
    /\ UNCHANGED <<mode, max_retries, models, dirCount, cwdFile, loaded, result,
                   current_code, feedback, feedbackFrom, attempt, annotated_code,
                   spotbugs_errors, error, vs_return, hist, genCalls, raisedPairs, pairLog>>

\* _update_metrics is skipped for a pair that raised; the handler of
\* run_evaluation stores {"error": str(e), "success": False}.
HandleException ==
    /\ pc = "raised"
    /\ test_results' = Put(test_results, <<models[mi].name, loaded[ti]>>,
                           [error |-> error, success |-> FALSE])
    /\ raisedPairs' = raisedPairs \cup {<<ti, mi>>}
    /\ pairLog' = Put(pairLog, <<ti, mi>>,
                      [outcome |-> [error |-> error, success |-> FALSE], hist |-> hist])
    /\ Advance
    /\ ResetLocals
    /\ UNCHANGED <<mode, max_retries, models, dirCount, cwdFile, loaded,
                   test_cases, metrics, vs_return>>

\* run_evaluation: store the returned result and update the aggregate metrics
StoreResult ==
    /\ pc = "returned"
    /\ test_results' = Put(test_results, <<models[mi].name, loaded[ti]>>, result)
    /\ metrics' = [metrics EXCEPT ![models[mi].name] = UpdateMetrics(@, result)]
    /\ pairLog' = Put(pairLog, <<ti, mi>>, [outcome |-> result, hist |-> hist])
    /\ Advance
    /\ ResetLocals
    /\ UNCHANGED <<mode, max_retries, models, dirCount, cwdFile, loaded,
                   test_cases, raisedPairs, vs_return>>

\* _finalize_metrics (ZeroDivisionError would leave run_evaluation)
Finalize ==
    /\ pc = "finalize"
    /\ IF NothingToFinalize(Len(test_cases))
       THEN pc' = "done" /\ metrics' = metrics
       ELSE IF Len(test_cases) = 0
       THEN pc' = "crashed" /\ metrics' = metrics
       ELSE /\ pc' = "done"
            /\ metrics' = [n \in DOMAIN metrics |->
                              FinalizeModel(metrics[n], Len(test_cases))]
    /\ UNCHANGED <<mode, max_retries, models, dirCount, cwdFile, loaded,
                   test_cases, test_results, ti, mi, result, current_code,
                   feedback, feedbackFrom, attempt, annotated_code, spotbugs_errors, error,
                   vs_return, hist, genCalls, raisedPairs, pairLog>>

(* ------------- JMLResearchEvaluator._evaluate_single_case ------------- *)
GridFrame ==
    UNCHANGED <<mode, max_retries, models, dirCount, cwdFile, loaded, test_cases,
                metrics, test_results, ti, mi, vs_return, raisedPairs, pairLog>>

\* for attempt in range(self.max_retries): where the end of the body of
\* iteration att leads (falling out of the loop returns the result)
LoopNext(att) == IF att + 1 < max_retries THEN "loop" ELSE "returned"

\* The variant that records the ceiling instead of the attempts made.
RetriesOfCeiling(att) == max_retries

\* result["retries"] = attempt (the off-by-one variant)
RetriesOfZeroBased(att) == att

\* result["retries"] = attempt + 1
RetriesOf(att) == att + 1

\* result["success"] = compile_success and spotbugs_success and key_success
OverallSuccess(r) == r.compile_success /\ r.spotbugs_success /\ r.key_success

\* break on the last attempt only (the variant without the success test)
ShouldBreakLastOnly(r, att) == att = max_retries - 1

\* if result["success"] or attempt == self.max_retries - 1: break
ShouldBreak(r, att) == r.success \/ att = max_retries - 1

\* The flags and errors of the result after spotbugs.run returned errs.
AfterSpotBugs(r, errs) ==
    IF errs = <<>> THEN [r EXCEPT !.spotbugs_success = TRUE]
    ELSE [r EXCEPT !.errors = Append(@, [type |-> "spotbugs", messages |-> errs])]

\* The variant that does not note the errors of a failed KeY run.
AfterKeySilent(r, kr) ==
    IF kr.success THEN [r EXCEPT !.key_success = TRUE] ELSE r

\* The variant that forgets result["key_success"] = True.
AfterKeYNoFlag(r, kr) ==
    IF kr.success THEN r
    ELSE [r EXCEPT !.errors = Append(@, [type |-> "key", messages |-> kr.errors])]

\* The flags and errors of the result after key_verifier.verify returned kr.
AfterKeY(r, kr) ==
    IF kr.success THEN [r EXCEPT !.key_success = TRUE]
    ELSE [r EXCEPT !.errors = Append(@, [type |-> "key", messages |-> kr.errors])]

\* "Build feedback for next attempt": the lines of the feedback text.
BuildFeedback(r, errs) ==
    <<"Issues found:">>
    \o (IF errs # <<>> THEN <<"- SpotBugs errors:">> \o errs ELSE <<>>)
    \o (IF ~r.key_success
        THEN <<"- KeY errors:">>
             \o (IF r.errors # <<>> THEN r.errors[Len(r.errors)].messages ELSE <<>>)
        ELSE <<>>)

SetLast(h, field, v) == [h EXCEPT ![Len(h)] = [@ EXCEPT ![field] = v]]

\* The variant that notes the error but leaves the feedback as it was.
HandleValueErrorKeepsFeedback(r, att, msg) ==
    /\ UNCHANGED <<feedback, feedbackFrom>>
    /\ result' = [r EXCEPT
                    !.errors = Append(@, [type |-> "compilation", messages |-> <<msg>>]),
                    !.success = IF att = max_retries - 1 THEN FALSE ELSE @]
    /\ pc' = IF att = max_retries - 1 THEN "returned" ELSE LoopNext(att)

\* except ValueError as e: feedback, errors, and the break of the last attempt
HandleValueError(r, att, msg) ==
    /\ feedbackFrom' = att + 1
    /\ feedback' = <<"JML compilation failed:", msg>>
    /\ result' = [r EXCEPT
                    !.errors = Append(@, [type |-> "compilation", messages |-> <<msg>>]),
                    !.success = IF att = max_retries - 1 THEN FALSE ELSE @]
    /\ pc' = IF att = max_retries - 1 THEN "returned" ELSE LoopNext(att)

\* The variant that builds an Ollama client whatever the client type.
CreateLlmClientNeverRaises(model_config) == FALSE

\* _create_llm_client: raise ValueError("Unsupported client type: ...")
CreateLlmClientRaises(model_config) == model_config.client_type # "ollama"

\* the try of run_evaluation up to the loop: _create_llm_client, then the
\* first lines of _evaluate_single_case
StartPair ==
    /\ pc = "pair"
    /\ IF CreateLlmClientRaises(models[mi])
       THEN /\ pc' = "raised"
            /\ error' = "Unsupported client type"
            /\ UNCHANGED <<result, current_code, feedback, feedbackFrom, attempt>>
       ELSE /\ pc' = "loop"
            /\ result' = [NoResult EXCEPT
                            !.class_name = GetCodeClassName(UnitSource(loaded[ti]))]
            /\ current_code' = UnitSource(loaded[ti])
            /\ feedbackFrom' = 0
            /\ feedback' = <<>>
            /\ attempt' = -1
            /\ error' = ""
    /\ UNCHANGED <<annotated_code, spotbugs_errors, hist, genCalls>>
    /\ GridFrame

\* The variant without the class name check.
ClassNameNeverMissing(g) == FALSE

\* generate_and_validate: if not class_name: raise ValueError (the text is
\* empty or the scan finds no class declaration in it)
ClassNameMissing(g) == g = "no_class"

\* top of the loop body and generate_and_validate up to the class name check
Generate ==
    /\ pc = "loop"
    /\ \E b \in LlmBehaviours :
         LET att == attempt + 1
             r == [result EXCEPT !.retries = RetriesOf(att)]
             g == GenerateJml(b)
             h0 == [NoStages EXCEPT !.errors_before = Len(result.errors)]
         IN  /\ attempt' = att
             /\ genCalls' = Append(genCalls, [code |-> current_code, feedback |-> feedback,
                                              from |-> feedbackFrom])
             /\ IF g = "ConnectionError"
                THEN /\ pc' = "raised"
                     /\ error' = "Ollama connection failed"
                     /\ result' = r
                     /\ hist' = Append(hist, [h0 EXCEPT !.gen = "error"])
                     /\ UNCHANGED <<feedback, feedbackFrom, annotated_code>>
                ELSE IF ClassNameMissing(g)
                THEN /\ HandleValueError(r, att, "Could not extract class name from the Java code")
                     /\ hist' = Append(hist, [h0 EXCEPT !.gen = "no_class"])
                     /\ UNCHANGED <<error, annotated_code>>
                ELSE /\ pc' = "compile"
                     /\ result' = r
                     /\ annotated_code' = Candidate(att + 1)
                     /\ hist' = Append(hist, [h0 EXCEPT !.gen = g])
                     /\ UNCHANGED <<error, feedback, feedbackFrom>>
    /\ UNCHANGED <<current_code, spotbugs_errors>>
    /\ GridFrame

\* generate_and_validate from the OpenJML run on, and the two assignments
\* that follow its return
Compile ==
    /\ pc = "compile"
    /\ \E b \in OpenJmlBehaviours :
         LET c == CompileWithOpenJml(b)
         IN  IF c = "hang"
             THEN /\ pc' = "hung"
                  /\ UNCHANGED <<result, feedback, feedbackFrom, error, hist>>
             ELSE IF c = "oserror"
             THEN /\ pc' = "raised"
                  /\ error' = "openjml could not be run"
                  /\ hist' = SetLast(hist, "compile", "error")
                  /\ UNCHANGED <<result, feedback, feedbackFrom>>
             ELSE IF c = "errors"
             THEN /\ HandleValueError(result, attempt, "JML validation failed")
                  /\ hist' = SetLast(hist, "compile", "fail")
                  /\ UNCHANGED error
             ELSE /\ pc' = "spotbugs"
                  /\ result' = [result EXCEPT !.compile_success = TRUE,
                                              !.annotations = annotated_code]
                  /\ hist' = SetLast(hist, "compile", "pass")
                  /\ UNCHANGED <<feedback, feedbackFrom, error>>
    /\ UNCHANGED <<current_code, attempt, annotated_code, spotbugs_errors, genCalls>>
    /\ GridFrame

\* The variant in which the loop goes on to its next iteration once SpotBugs
\* has reported, without the KeY run of the attempt.
SpotBugsThenNextAttempt ==
    /\ pc = "spotbugs"
    /\ \E b \in SpotBugsBehaviours :
         LET sb == SpotBugsRun(cwdFile, b)
         IN  IF sb.hang
             THEN /\ pc' = "hung"
                  /\ UNCHANGED <<result, spotbugs_errors, hist>>
             ELSE /\ pc' = LoopNext(attempt)
                  /\ spotbugs_errors' = sb.errors
                  /\ result' = AfterSpotBugs(result, sb.errors)
                  /\ hist' = SetLast(SetLast(hist, "spotbugs_errors", sb.errors), "spotbugs",
                                  SpotBugsVerdict(sb.errors, cwdFile, b))
    /\ UNCHANGED <<current_code, feedback, feedbackFrom, attempt, annotated_code, error, genCalls>>
    /\ GridFrame

\* "Check with SpotBugs" on file_path = "<class_name>.java"
SpotBugs ==
    /\ pc = "spotbugs"
    /\ \E b \in SpotBugsBehaviours :
         LET sb == SpotBugsRun(cwdFile, b)
         IN  IF sb.hang
             THEN /\ pc' = "hung"
                  /\ UNCHANGED <<result, spotbugs_errors, hist>>
             ELSE /\ pc' = "key"
                  /\ spotbugs_errors' = sb.errors
                  /\ result' = AfterSpotBugs(result, sb.errors)
                  /\ hist' = SetLast(SetLast(hist, "spotbugs_errors", sb.errors), "spotbugs",
                                  SpotBugsVerdict(sb.errors, cwdFile, b))
    /\ UNCHANGED <<current_code, feedback, feedbackFrom, attempt, annotated_code, error, genCalls>>
    /\ GridFrame

\* "Check with KeY verifier" to the end of the loop body
KeY ==
    /\ pc = "key"
    /\ \E b \in KeYBehaviours :
         LET kr == KeYVerify(cwdFile, b)
             r1 == AfterKeY(result, kr)
             r2 == [r1 EXCEPT !.success = OverallSuccess(r1)]
         IN  /\ result' = r2
             /\ hist' = SetLast(SetLast(hist, "key_errors", kr.errors), "key",
                             KeYVerdict(kr, cwdFile, b))
             /\ IF ShouldBreak(r2, attempt)
                THEN pc' = "returned" /\ UNCHANGED <<feedback, feedbackFrom, current_code>>
                ELSE /\ pc' = LoopNext(attempt)
                     /\ feedbackFrom' = attempt + 1
                     /\ feedback' = BuildFeedback(r2, spotbugs_errors)
                     /\ current_code' = annotated_code
    /\ UNCHANGED <<attempt, annotated_code, spotbugs_errors, error, genCalls>>
    /\ GridFrame

(* ----------------------- VerificationSystem.run ----------------------- *)
VsFrame ==
    UNCHANGED <<mode, max_retries, models, dirCount, loaded, test_cases, metrics,
                test_results, ti, mi, spotbugs_errors, error, raisedPairs, pairLog>>

\* for attempt in range(self.max_retries): the end of iteration att without
\* a return; after the last one run returns current_code
VsEndOfAttempt(att, code) ==
    IF att + 1 < max_retries
    THEN pc' = "vs_loop" /\ vs_return' = vs_return
    ELSE pc' = "vs_done" /\ vs_return' = [returned |-> TRUE, success |-> FALSE, code |-> code]

\* if not spotbugs_errors and key_result["success"]
VsSuccess(errs, kr) == errs = <<>> /\ kr.success

\* "Generate feedback for next attempt"
VsFeedback(errs, kr) ==
    <<"Issues found:">>
    \o (IF errs # <<>> THEN <<"- SpotBugs errors:">> \o errs ELSE <<>>)
    \o (IF ~kr.success THEN <<"- KeY errors:">> \o kr.errors ELSE <<>>)

\* run: the lines before the loop
VsStart ==
    /\ pc = "vs_start"
    /\ current_code' = UnitSource(SampleCase)
    /\ feedbackFrom' = 0
    /\ feedback' = <<>>
    /\ result' = [result EXCEPT !.class_name =
                    IF GetCodeClassName(UnitSource(SampleCase)) = None
                    THEN "Temp" ELSE GetCodeClassName(UnitSource(SampleCase))]
    /\ pc' = "vs_loop"
    /\ UNCHANGED <<cwdFile, attempt, annotated_code, vs_return, hist, genCalls>>
    /\ VsFrame

\* generate_and_validate up to the class name check; ConnectionError is
\* caught by `except Exception`, ValueError by `except ValueError`
VsGenerate ==
    /\ pc = "vs_loop"
    /\ \E b \in LlmBehaviours :
         LET att == attempt + 1
             g == GenerateJml(b)
         IN  /\ attempt' = att
             /\ genCalls' = Append(genCalls, [code |-> current_code, feedback |-> feedback,
                                              from |-> feedbackFrom])
             /\ IF g = "ConnectionError"
                THEN /\ hist' = Append(hist, [NoStages EXCEPT !.gen = "error"])
                     /\ VsEndOfAttempt(att, current_code)
                     /\ UNCHANGED <<feedback, feedbackFrom, annotated_code>>
                ELSE IF ClassNameMissing(g)
                THEN /\ hist' = Append(hist, [NoStages EXCEPT !.gen = "no_class"])
                     /\ feedbackFrom' = att + 1
                     /\ feedback' = <<"JML compilation failed:",
                                      "Could not extract class name from the Java code">>
                     /\ VsEndOfAttempt(att, current_code)
                     /\ UNCHANGED annotated_code
                ELSE /\ hist' = Append(hist, [NoStages EXCEPT !.gen = g])
                     /\ annotated_code' = Candidate(att + 1)
                     /\ pc' = "vs_compile"
                     /\ UNCHANGED <<feedback, feedbackFrom, vs_return>>
    /\ UNCHANGED <<cwdFile, current_code, result>>
    /\ VsFrame

\* generate_and_validate from the OpenJML run on, then "Write to file for
\* analysis"
VsCompile ==
    /\ pc = "vs_compile"
    /\ \E b \in OpenJmlBehaviours :
         LET c == CompileWithOpenJml(b)
         IN  IF c = "hang"
             THEN /\ pc' = "hung"
                  /\ UNCHANGED <<cwdFile, feedback, feedbackFrom, vs_return, hist>>
             ELSE IF c = "oserror"
             THEN /\ hist' = SetLast(hist, "compile", "error")
                  /\ VsEndOfAttempt(attempt, current_code)
                  /\ UNCHANGED <<cwdFile, feedback, feedbackFrom>>
             ELSE IF c = "errors"
             THEN /\ hist' = SetLast(hist, "compile", "fail")
                  /\ feedbackFrom' = attempt + 1
                  /\ feedback' = <<"JML compilation failed:", "JML validation failed">>
                  /\ VsEndOfAttempt(attempt, current_code)
                  /\ UNCHANGED cwdFile
             ELSE /\ hist' = SetLast(hist, "compile", "pass")
                  /\ cwdFile' = annotated_code
                  /\ pc' = "vs_spotbugs"
                  /\ UNCHANGED <<feedback, feedbackFrom, vs_return>>
    /\ UNCHANGED <<current_code, attempt, annotated_code, result, genCalls>>
    /\ VsFrame

\* "Run SpotBugs"
VsSpotBugs ==
    /\ pc = "vs_spotbugs"
    /\ \E b \in SpotBugsBehaviours :
         LET sb == SpotBugsRun(cwdFile, b)
         IN  IF sb.hang
             THEN /\ pc' = "hung"
                  /\ UNCHANGED <<spotbugs_errors, hist>>
             ELSE /\ pc' = "vs_key"
                  /\ spotbugs_errors' = sb.errors
                  /\ hist' = SetLast(SetLast(hist, "spotbugs_errors", sb.errors), "spotbugs",
                                  SpotBugsVerdict(sb.errors, cwdFile, b))
    /\ UNCHANGED <<mode, max_retries, models, dirCount, loaded, test_cases, metrics,
                   test_results, ti, mi, error, raisedPairs, pairLog, cwdFile, current_code,
                   feedback, feedbackFrom, attempt, annotated_code, result, vs_return, genCalls>>

\* "Run KeY verification" to the end of the loop body
VsKeY ==
    /\ pc = "vs_key"
    /\ \E b \in KeYBehaviours :
         LET kr == KeYVerify(cwdFile, b)
         IN  /\ hist' = SetLast(SetLast(hist, "key_errors", kr.errors), "key",
                             KeYVerdict(kr, cwdFile, b))
             /\ IF VsSuccess(spotbugs_errors, kr)
                THEN /\ pc' = "vs_done"
                     /\ vs_return' = [returned |-> TRUE, success |-> TRUE,
                                      code |-> annotated_code]
                     /\ UNCHANGED <<feedback, feedbackFrom, current_code>>
                ELSE /\ feedback' = VsFeedback(spotbugs_errors, kr)
                     /\ feedbackFrom' = attempt + 1
                     /\ current_code' = annotated_code
                     /\ VsEndOfAttempt(attempt, annotated_code)
    /\ UNCHANGED <<cwdFile, attempt, annotated_code, result, genCalls>>
    /\ VsFrame

(* -------------------------- the specifications ------------------------ *)
Next ==
    \/ LoadTestCasesStep
    \/ SetupMetrics
    \/ StartPair
    \/ Generate
    \/ Compile
    \/ SpotBugs
    \/ KeY
    \/ StoreResult
    \/ HandleException
    \/ Finalize
    \/ VsStart
    \/ VsGenerate
    \/ VsCompile
    \/ VsSpotBugs
    \/ VsKeY

Spec == Init /\ [][Next]_vars

\* run_evaluation entered with the unit list given (load_test_cases
\* replaced by a list that may be empty), the rest of the grid unchanged.
InitLoaded ==
    /\ mode = "grid"
    /\ InitCommon
    /\ models \in ModelLists
    /\ dirCount \in 0..MaxUnits
    /\ Len(models) * UnitsOf(dirCount) * max_retries <= MaxWork
    /\ loaded = [i \in 1..dirCount |-> i]
    /\ pc = "setup"

NextLoaded ==
    \/ SetupMetrics
    \/ StartPair
    \/ Generate
    \/ Compile
    \/ SpotBugs
    \/ KeY
    \/ StoreResult
    \/ HandleException
    \/ Finalize

SpecLoaded == InitLoaded /\ [][NextLoaded]_vars

(* ------------------------------ the claims ---------------------------- *)
LastAttempt == hist[Len(hist)]

ExecutionErrorIn(h) == "error" \in {h.compile, h.spotbugs, h.key}

\* C1: when _evaluate_single_case returns, result.success is true if and
\* only if the compile, SpotBugs and KeY stages all passed in the last
\* attempt that was executed.
C1_SuccessIffLastAttemptPassed ==
    pc = "returned" => (result.success <=> AllPassed(LastAttempt))

\* C2: early termination law, for both loops: an attempt in which generation
\* succeeded and every stage passed is the last attempt; the generator was
\* called exactly once per attempt up to it, the loop is over and reports
\* success.
C2_EarlyTermination ==
    \A i \in 1..Len(hist) :
        AllPassed(hist[i]) =>
            /\ i = Len(hist)
            /\ Len(genCalls) = i
            /\ attempt = i - 1
            /\ mode = "grid" => pc = "returned" /\ result.success /\ result.retries = i
            /\ mode = "vs" => pc = "vs_done" /\ vs_return.returned /\ vs_return.success

C2_Witness ==
    /\ mode = "vs" /\ pc = "vs_done"
    /\ Len(hist) = 2 /\ AllPassed(hist[2]) /\ max_retries = 3

\* C3: when the loop of _evaluate_single_case terminates (by return or by an
\* exception), result.retries counts the attempts made and lies in 1..N.
C3_RetriesWithinCeiling ==
    (pc = "returned" \/ (pc = "raised" /\ attempt >= 0)) =>
        /\ result.retries = Len(hist)
        /\ 1 <= result.retries /\ result.retries <= max_retries

C3_Witness ==
    pc = "returned" /\ max_retries = 3 /\ result.retries = 3 /\ ~result.success

\* C4: a generation failure consumes one attempt and is retried: when the
\* evaluation of a pair is over and generation failed in every attempt made,
\* the function returned with exactly N attempts, none of which ran a stage,
\* each noted in errors, and success is false.
C4_GenerationFailureRetried ==
    ( /\ pc \in {"returned", "raised"}
      /\ hist # <<>>
      /\ \A i \in 1..Len(hist) : hist[i].gen # "text" ) =>
        /\ pc = "returned"
        /\ result.retries = max_retries
        /\ Len(hist) = max_retries
        /\ Len(result.errors) = max_retries
        /\ ~result.success
        /\ \A i \in 1..Len(hist) :
              hist[i].compile = "none" /\ hist[i].spotbugs = "none" /\ hist[i].key = "none"

\* C5: a stage execution error counts as a failed stage: an attempt in which
\* a tool timed out, crashed or could not run does not seal the record with
\* success = true, and that stage's flag is not set.
C5_ExecutionErrorFailsAttempt ==
    (pc = "returned" /\ ExecutionErrorIn(LastAttempt)) =>
        /\ ~result.success
        /\ LastAttempt.spotbugs = "error" => ~result.spotbugs_success
        /\ LastAttempt.key = "error" => ~result.key_success

PairKey(t, m) == <<models[m].name, loaded[t]>>

\* C6: after run_evaluation every (agent, unit) pair of the grid has a
\* recorded result, and the result of a pair whose evaluation raised has
\* success = false and an error text.
C6_EveryPairRecorded ==
    pc = "done" =>
        \A t \in 1..Len(loaded) : \A m \in 1..Len(models) :
            /\ PairKey(t, m) \in DOMAIN test_results
            /\ <<t, m>> \in raisedPairs =>
                  /\ ~test_results[PairKey(t, m)].success
                  /\ "error" \in DOMAIN test_results[PairKey(t, m)]

\* C7: every external tool invocation is bounded by a timeout, so a loop is
\* never blocked for ever in a call to a tool that does not return.
C7_NeverBlockedInTool == pc # "hung"

\* C8: if every stage passes on the candidate of attempt 1, the record has
\* exactly one attempt and success = true.
C8_FirstAttemptPassSealsSuccess ==
    (pc = "returned" /\ AllPassed(hist[1])) =>
        result.retries = 1 /\ result.success /\ result.annotations = Candidate(1)

C8_Witness ==
    pc = "returned" /\ AllPassed(hist[1]) /\ max_retries = 3 /\ result.retries = 1

RecordedOf(n) == {k \in DOMAIN test_results : k[1] = n}

CountFlag(n, flag) ==
    Cardinality({k \in RecordedOf(n) :
                    flag \in DOMAIN test_results[k] /\ test_results[k][flag]})

RECURSIVE SumRetries(_)
SumRetries(ks) ==
    IF ks = {} THEN 0
    ELSE LET k == CHOOSE x \in ks : TRUE
         IN  (IF "retries" \in DOMAIN test_results[k] THEN test_results[k].retries ELSE 0)
             + SumRetries(ks \ {k})

PercentOf(count, total) == [num |-> count * 100, den |-> total]

\* C9: after finalization each agent's percentages equal the number of its
\* recorded results with the flag set / number of units * 100, and
\* avg_retries equals the sum of the recorded retries / number of units.
C9_MetricsAreReductionOfRecords ==
    pc = "done" =>
        \A n \in DOMAIN metrics :
            LET u == Len(test_cases)
            IN  /\ FracEq(metrics[n].success_rate, PercentOf(CountFlag(n, "success"), u))
                /\ FracEq(metrics[n].compile_success,
                          PercentOf(CountFlag(n, "compile_success"), u))
                /\ FracEq(metrics[n].spotbugs_success,
                          PercentOf(CountFlag(n, "spotbugs_success"), u))
                /\ FracEq(metrics[n].key_success, PercentOf(CountFlag(n, "key_success"), u))
                /\ FracEq(metrics[n].avg_retries,
                          [num |-> SumRetries(RecordedOf(n)), den |-> u])

\* C10: with zero units finalization divides nothing: it ends without a
\* division error and every agent's rates are the zeros they were set up
\* with.
C10_ZeroUnitsZeroRates ==
    /\ pc # "crashed"
    /\ (pc = "done" /\ Len(test_cases) = 0) =>
          /\ DOMAIN metrics = ModelNames(models)
          /\ \A n \in DOMAIN metrics : metrics[n] = ZeroMetrics

C10_Witness ==
    pc = "done" /\ Len(test_cases) = 0 /\ Cardinality(DOMAIN metrics) = 2

InLoop == pc \in {"loop", "compile", "spotbugs", "key", "returned", "hung"}

ConfigErrorRaised == pc = "raised" /\ error = "Unsupported client type"

\* C11: a configuration error is fatal to its grid entry only and is never
\* retried: the loop is never entered for an entry with an unsupported
\* client type, no generator call and no stage is made for it, and the next
\* step records {error, success: False} for the pair and moves on to the
\* next pair (or to finalization).
C11_ConfigErrorFatalToEntryOnly ==
    /\ [](InLoop /\ mode = "grid" => models[mi].client_type = "ollama")
    /\ [](ConfigErrorRaised => genCalls = <<>> /\ hist = <<>> /\ attempt = -1)
    /\ [][ConfigErrorRaised =>
            /\ PairKey(ti, mi) \in DOMAIN test_results'
            /\ test_results'[PairKey(ti, mi)] =
                  [error |-> "Unsupported client type", success |-> FALSE]
            /\ <<ti', mi'>> # <<ti, mi>> \/ pc' = "finalize"
            /\ pc' \in {"pair", "finalize"}]_vars

C11_Witness ==
    /\ pc = "loop" /\ mi = 2
    /\ PairKey(ti, 1) \in DOMAIN test_results
    /\ "error" \in DOMAIN test_results[PairKey(ti, 1)]
    /\ test_results[PairKey(ti, 1)].error = "Unsupported client type"

\* The first generation call of the pair in progress gets the unit's original
\* source and the empty feedback.
FirstCallIsFresh ==
    genCalls # <<>> /\ mode = "grid" =>
        genCalls[1] = [code |-> UnitSource(loaded[ti]), feedback |-> <<>>, from |-> 0]

\* What is recorded for a grid position is what its own evaluation produced.
RecordedIsOwn ==
    \A p \in DOMAIN pairLog :
        /\ PairKey(p[1], p[2]) \in DOMAIN test_results
        /\ test_results[PairKey(p[1], p[2])] = pairLog[p].outcome

\* Two evaluations of the same unit with the same generator and stage
\* outcomes produced the same result, whatever was evaluated before them.
OwnOutcomesDetermineResult ==
    \A p, q \in DOMAIN pairLog :
        loaded[p[1]] = loaded[q[1]] /\ pairLog[p].hist = pairLog[q].hist
            => pairLog[p].outcome = pairLog[q].outcome

\* C12: pair independence: every pair's first generation call receives the
\* unit's original source with empty feedback, and the result recorded for a
\* pair is the one determined by its own unit source and its own generator
\* and stage outcomes, whatever the outcomes of the other pairs of the grid.
C12_PairIndependence ==
    FirstCallIsFresh /\ RecordedIsOwn /\ OwnOutcomesDetermineResult

\* C13 as stated: a record with exactly N attempts has no attempt in which
\* every stage passed.
C13_CeilingOnlyIfNoAttemptPassed ==
    pc = "returned" /\ result.retries = max_retries =>
        \A i \in 1..Len(hist) : ~AllPassed(hist[i])

\* C13, amended: a record with exactly N attempts has no attempt before the
\* N-th in which every stage passed (the N-th itself may pass).
C13_CeilingOnlyIfNoEarlierAttemptPassed ==
    pc = "returned" /\ result.retries = max_retries =>
        \A i \in 1..Len(hist) : AllPassed(hist[i]) => i = max_retries

C13_Witness ==
    /\ pc = "returned" /\ max_retries = 3 /\ result.retries = 3
    /\ AllPassed(hist[3]) /\ ~AllPassed(hist[1]) /\ ~AllPassed(hist[2])

\* Attempt i of the loop in progress is over (the loop is not inside it).
AttemptOver(i) ==
    \/ i < Len(hist)
    \/ pc \notin {"compile", "spotbugs", "key", "vs_compile", "vs_spotbugs", "vs_key", "hung"}

\* C14: non-short-circuiting stages, in both loops: the stages run in the
\* order OpenJML, SpotBugs, KeY, and every attempt that is over and whose
\* generation produced a candidate has an outcome of each of the three
\* stages, whatever the earlier stages of the attempt reported.
C14_AllStagesRunOnEveryCandidate ==
    \A i \in 1..Len(hist) :
        /\ hist[i].key # "none" => hist[i].spotbugs # "none"
        /\ hist[i].spotbugs # "none" => hist[i].compile # "none"
        /\ hist[i].gen = "text" /\ AttemptOver(i) =>
              /\ hist[i].compile # "none"
              /\ hist[i].spotbugs # "none"
              /\ hist[i].key # "none"

\* C15: progressive refinement, in both loops: when attempt i produced a
\* candidate that failed a stage and attempt i+1 was made, the source passed
\* to the generator in attempt i+1 is the candidate of attempt i.
C15_NextAttemptRefinesLastCandidate ==
    \A i \in 1..(Len(genCalls) - 1) :
        hist[i].gen = "text" /\ ~AllPassed(hist[i]) =>
            genCalls[i + 1].code = Candidate(i)

\* The feedback C16 describes for an attempt: one labelled section per stage
\* that did not pass in the attempt, listing the attempt's diagnostics of
\* that stage in order.
SectionsOf(h) ==
    <<"Issues found:">>
    \o (IF h.spotbugs # "pass" THEN <<"- SpotBugs errors:">> \o h.spotbugs_errors ELSE <<>>)
    \o (IF h.key # "pass" THEN <<"- KeY errors:">> \o h.key_errors ELSE <<>>)

\* C16: in _evaluate_single_case, the feedback built after a non-final
\* attempt whose candidate compiled (the feedback the next attempt is given)
\* has a SpotBugs section iff SpotBugs failed in that attempt and a KeY
\* section iff KeY failed in that attempt, each listing that attempt's
\* diagnostics of the stage in order.
C16_FeedbackSectionsMatchAttempt ==
    mode = "grid" =>
        \A i \in 1..(Len(genCalls) - 1) :
            hist[i].compile = "pass" => genCalls[i + 1].feedback = SectionsOf(hist[i])

\* C17: in both loops the feedback passed to the generator in attempt 1 is
\* empty, and the feedback passed in attempt i+1 was assigned while handling
\* the failure of attempt i, never left over from an older attempt.
C17_FeedbackFromPrecedingAttempt ==
    \A i \in 1..Len(genCalls) :
        /\ i = 1 => genCalls[i].feedback = <<>> /\ genCalls[i].from = 0
        /\ i > 1 => genCalls[i].from = i - 1

\* The feedback block of _evaluate_single_case applied to the outcomes of one
\* attempt alone, as in a first attempt (no earlier attempt has set a flag).
FeedbackOfAttemptAlone(h) ==
    LET r1 == AfterSpotBugs(NoResult, h.spotbugs_errors)
        r2 == AfterKeY(r1, [success |-> h.key = "pass", errors |-> h.key_errors])
    IN  BuildFeedback(r2, h.spotbugs_errors)

\* C18: in _evaluate_single_case the feedback built after an attempt whose
\* candidate compiled depends on that attempt's stage outcomes and
\* diagnostics only: two attempts of the loop with identical outcomes yield
\* identical feedback, and an attempt yields the feedback a first attempt
\* with the same outcomes yields, whatever the attempts before it were.
C18_FeedbackDependsOnAttemptOnly ==
    mode = "grid" =>
        /\ \A i, j \in 1..(Len(genCalls) - 1) :
               hist[i] = hist[j] => genCalls[i + 1].feedback = genCalls[j + 1].feedback
        /\ \A i \in 1..(Len(genCalls) - 1) :
               hist[i].compile = "pass" =>
                   genCalls[i + 1].feedback = FeedbackOfAttemptAlone(hist[i])

\* C19: in both loops, when SpotBugs and KeY are handed the path
\* <class_name>.java, the file of that name holds the candidate of the
\* attempt in progress (it was written in this attempt).
C19_StagesCheckThisAttemptsFile ==
    pc \in {"spotbugs", "key", "vs_spotbugs", "vs_key"} =>
        /\ annotated_code = Candidate(attempt + 1)
        /\ cwdFile = annotated_code

\* C20: identifier fallback: for a unit whose source has no class
\* declaration, _evaluate_single_case enters the loop (nothing is raised)
\* with the record's class_name set to the unit's case_name.
C20_ClassNameFallsBackToCaseName ==
    InLoop /\ mode = "grid" /\ ~UnitSource(loaded[ti]).hasClass =>
        result.class_name = CaseName(loaded[ti])

\* The loop of _evaluate_single_case so far: generation succeeded in every
\* attempt, the compile stage failed in every attempt but the last, and every
\* stage passed in the last.
CompileFailsThenAllPass ==
    /\ mode = "grid" /\ hist # <<>>
    /\ \A i \in 1..(Len(hist) - 1) : hist[i].gen = "text" /\ hist[i].compile = "fail"
    /\ AllPassed(LastAttempt)

\* C21: when generation always succeeds, the compile stage fails on attempts
\* 1..k-1 and every stage passes on attempt k, the function returns after
\* attempt k with retries = k and success = true, and the feedback built after
\* each of the attempts 1..k-1 is the compile diagnostics only, with no
\* SpotBugs and no KeY section.
C21_CompileFailuresThenPass ==
    CompileFailsThenAllPass =>
        /\ pc = "returned"
        /\ result.retries = Len(hist) /\ Len(genCalls) = Len(hist)
        /\ result.success
        /\ \A i \in 1..(Len(hist) - 1) :
              genCalls[i + 1].feedback = <<"JML compilation failed:", "JML validation failed">>

C21_Witness ==
    CompileFailsThenAllPass /\ Len(hist) = 3 /\ max_retries = 3 /\ pc = "returned"

\* C22: an attempt whose generated text is empty or has no extractable class
\* declaration invokes neither OpenJML nor SpotBugs nor KeY, and is recorded
\* as failed: in _evaluate_single_case the error is noted in result.errors
\* and success stays false; VerificationSystem.run does not report success.
C22_UnparseableArtifactNeverChecked ==
    \A i \in 1..Len(hist) :
        hist[i].gen = "no_class" =>
            /\ hist[i].compile = "none" /\ hist[i].spotbugs = "none" /\ hist[i].key = "none"
            /\ ~AllPassed(hist[i])
            /\ i = Len(hist) /\ mode = "grid" =>
                  /\ ~result.success
                  /\ result.errors # <<>>
                  /\ result.errors[Len(result.errors)] =
                        [type |-> "compilation",
                         messages |-> <<"Could not extract class name from the Java code">>]
            /\ i = Len(hist) /\ mode = "vs" => ~vs_return.success

C22_Witness ==
    /\ mode = "grid" /\ pc = "returned" /\ Len(hist) = 2
    /\ hist[1].gen = "no_class" /\ hist[2].gen = "no_class"

\* C23: every recorded pair result with success = false carries diagnostics:
\* an error text set by the exception handler of run_evaluation, or a
\* non-empty errors list whose last entry was appended in the last attempt
\* that was executed.
C23_FailedRecordsCarryDiagnostics ==
    /\ \A k \in DOMAIN test_results :
          ~test_results[k].success =>
              \/ "error" \in DOMAIN test_results[k] /\ test_results[k].error # ""
              \/ "errors" \in DOMAIN test_results[k] /\ test_results[k].errors # <<>>
    /\ \A p \in DOMAIN pairLog :
          LET o == pairLog[p].outcome
              h == pairLog[p].hist
          IN  ~o.success /\ "errors" \in DOMAIN o =>
                  /\ h # <<>>
                  /\ Len(o.errors) > h[Len(h)].errors_before

C23_Witness ==
    /\ pc = "done" /\ max_retries = 3
    /\ \E p \in DOMAIN pairLog :
          LET o == pairLog[p].outcome
          IN  /\ "errors" \in DOMAIN o /\ ~o.success /\ o.retries = 3
              /\ test_results[PairKey(p[1], p[2])] = o
              /\ o.errors[Len(o.errors)].type = "key"

\* C24: when VerificationSystem.run has used up max_retries without success
\* and its last attempt produced a candidate, the code it returns is that
\* candidate.
C24_RunReturnsLastCandidate ==
    ( /\ mode = "vs" /\ pc = "vs_done"
      /\ ~vs_return.success
      /\ LastAttempt.gen = "text" ) =>
        /\ Len(hist) = max_retries
        /\ vs_return.code = Candidate(max_retries)

\* VerificationSystem.run on the outcomes of one attempt: the attempt returns
\* from inside the loop iff the candidate compiled and the success test of
\* run holds of the SpotBugs and KeY results.
VsAttemptSucceeds(h) ==
    /\ h.gen = "text" /\ h.compile = "pass"
    /\ VsSuccess(h.spotbugs_errors, [success |-> h.key = "pass", errors |-> h.key_errors])

\* VerificationSystem.run driven by the outcome sequence h returns from
\* inside the loop after attempt k.
VsSucceedsAfter(h, k) ==
    /\ k \in 1..Len(h)
    /\ VsAttemptSucceeds(h[k])
    /\ \A i \in 1..(k - 1) : ~VsAttemptSucceeds(h[i])

\* Every generation call of the loop so far returned text.
EveryGenerationReturnedText ==
    hist # <<>> /\ \A i \in 1..Len(hist) : hist[i].gen \in {"text", "no_class"}

\* C25: the two loops agree: on a sequence of outcomes in which every
\* generation call returns text, run reports success after attempt k exactly
\* when _evaluate_single_case, driven by the same outcomes, ends with
\* success = true and retries = k.
C25_LoopsAgree ==
    /\ mode = "vs" /\ pc = "vs_done" /\ EveryGenerationReturnedText =>
          (vs_return.success <=> VsSucceedsAfter(hist, Len(hist)))
    /\ mode = "grid" /\ pc = "returned" /\ EveryGenerationReturnedText =>
          (result.success /\ result.retries = Len(hist)
              <=> VsSucceedsAfter(hist, Len(hist)))

IsPercentage(f) == FracLeq(Frac(0), f) /\ FracLeq(f, Frac(100))

\* C26: after run_evaluation has finalized the metrics, success_rate,
\* compile_success, spotbugs_success and key_success of every agent lie
\* between 0 and 100 inclusive, for every list of model configurations
\* (lists that repeat a name included).
C26_PercentagesWithinRange ==
    pc = "done" =>
        \A n \in DOMAIN metrics :
            /\ IsPercentage(metrics[n].success_rate)
            /\ IsPercentage(metrics[n].compile_success)
            /\ IsPercentage(metrics[n].spotbugs_success)
            /\ IsPercentage(metrics[n].key_success)

\* Every stage of the attempt that was going to run has completed: OpenJML
\* on a candidate, SpotBugs and KeY on a candidate that compiled.
AttemptComplete(h) ==
    /\ h.gen # "none"
    /\ h.gen = "text" => h.compile # "none"
    /\ h.compile = "pass" => h.spotbugs # "none" /\ h.key # "none"

\* The grid positions of the nested loops of run_evaluation that come before
\* position <<t, m>>.
PositionsBefore(t, m) ==
    {p \in (1..Len(loaded)) \X (1..Len(models)) :
        p[1] < t \/ (p[1] = t /\ p[2] < m)}

\* C27: attempts are strictly ordered: a generator call is made only between
\* attempts, when every stage of every earlier attempt that was going to run
\* has completed; and pairs are strictly ordered: while a pair is evaluated,
\* the evaluations of exactly the pairs before it are over, and a pair starts
\* with no attempt made.
C27_StrictOrdering ==
    /\ [][Len(genCalls') > Len(genCalls) =>
            /\ pc \in {"loop", "vs_loop"}
            /\ Len(genCalls) = Len(hist) /\ Len(genCalls') = Len(hist) + 1
            /\ \A i \in 1..Len(hist) : AttemptComplete(hist[i])]_vars
    /\ [](mode = "grid" /\ (pc = "pair" \/ pc = "raised" \/ InLoop) =>
            DOMAIN pairLog = PositionsBefore(ti, mi))
    /\ [](pc = "pair" => genCalls = <<>> /\ hist = <<>>)

C27_Witness ==
    /\ mode = "grid" /\ pc = "compile" /\ Len(genCalls) = 3
    /\ hist[1].key # "none" /\ hist[2].key # "none"

====
